---- MODULE Spec2Model ----
(***************************************************************************)
(* Model of libs/layers/roi.py: encode (matching, sampling, target         *)
(* expansion), decode, _compute_targets and _unmap.                        *)
(*                                                                         *)
(* Arrays are sequences of rows, so row indices are 1-based here (numpy    *)
(* row i is row i+1); columns of the class-slotted arrays keep numpy's     *)
(* 0-based numbering, so class c owns columns 4c .. 4c+3.  A call that     *)
(* raises is recorded in result.status and returns no arrays.              *)
(***************************************************************************)
EXTENDS Integers, Sequences, FiniteSets, TLC

VARIABLES pc, args, locals, result

vars == <<pc, args, locals, result>>

(***************************************************************************)
(* Bounds of the model.                                                    *)
(***************************************************************************)
MaxRois == 2
MaxGt == 2
MaxRoisPerImage == 2
MaxTargetRows == 2
MaxUnmapRows == 3
MaxUnmapCount == 3
MaxDecodeRois == 2

\* num_classes as the module's driver passes it
NumClasses == 3

Classes == 0 .. (NumClasses - 1)

\* IoU values (in tenths) the overlap computation may report, and the
\* threshold pairs <<fg_threshold, bg_threshold>> (in tenths) the flags supply
OverlapValues == {2, 6}
Thresholds == {<<7, 3>>, <<6, 6>>, <<6, 2>>, <<1, 3>>, <<5, 7>>}

\* fg_roi_fraction as <<numerator, denominator>>
FgRoiFractions == {<<1, 2>>}

NoArrays == << >>

(***************************************************************************)
(* numpy helpers                                                           *)
(***************************************************************************)
Min(a, b) == IF a <= b THEN a ELSE b
Max(a, b) == IF a >= b THEN a ELSE b

Range(s) == {s[k] : k \in DOMAIN s}

\* np.where(cond)[0]: the indices satisfying cond, ascending
RECURSIVE Ascending(_)
Ascending(S) ==
  IF S = {} THEN << >>
  ELSE LET m == CHOOSE x \in S : \A y \in S : x <= y
       IN <<m>> \o Ascending(S \ {m})

Where(S) == Ascending(S)

\* Argmax taking the last index that attains the maximum
ArgmaxLast(row) ==
  CHOOSE j \in 1 .. Len(row) :
    /\ \A k \in 1 .. Len(row) : row[k] <= row[j]
    /\ \A k \in (j + 1) .. Len(row) : row[k] < row[j]

\* ndarray.argmax over one row: the first index attaining the maximum
Argmax(row) ==
  CHOOSE j \in 1 .. Len(row) :
    /\ \A k \in 1 .. Len(row) : row[k] <= row[j]
    /\ \A k \in 1 .. (j - 1) : row[k] < row[j]

\* np.random.choice(a, size=n, replace=False): every ordered draw of n
\* distinct elements of a
Choice(a, n) ==
  {s \in [1 .. n -> Range(a)] : \A p, q \in 1 .. n : p # q => s[p] # s[q]}

\* fancy indexing a[inds]
Take(a, inds) == [k \in 1 .. Len(inds) |-> a[inds[k]]]

ZeroRow(ncols) == [c \in 0 .. (ncols - 1) |-> 0]

(***************************************************************************)
(* External collaborators (libs.boxes.bbox_transform): a reversible        *)
(* parameterisation of a target box relative to an anchor box, its         *)
(* inverse applied per class block, and the clamp into the image.          *)
(***************************************************************************)
BboxTransform(ex_rois, gt_rois) ==
  [k \in 1 .. Len(ex_rois) |-> [m \in 1 .. 4 |-> gt_rois[k][m] - ex_rois[k][m]]]

BboxTransformInv(rois, deltas) ==
  [i \in 1 .. Len(rois) |->
     [c \in DOMAIN deltas[i] |-> rois[i][(c % 4) + 1] + deltas[i][c]]]

ClipBoxes(boxes, ih, iw) ==
  [i \in 1 .. Len(boxes) |->
     [m \in 1 .. 4 |->
        IF m \in {1, 3} THEN Max(Min(boxes[i][m], iw - 1), 0)
        ELSE Max(Min(boxes[i][m], ih - 1), 0)]]

(***************************************************************************)
(* _compute_targets                                                        *)
(***************************************************************************)
Raised(e) == [status |-> e, bbox_targets |-> NoArrays, bbox_inside_weights |-> NoArrays]

\* the columns start .. end-1 that row[start:end] selects in a row of ncols
Slice(start, end, ncols) == Min(start, ncols) .. (Min(end, ncols) - 1)

\* the 'for ind in inds' loop from position p on
RECURSIVE ExpandLoop(_, _, _, _, _, _)
ExpandLoop(inds, p, targets, clss, bbox_targets, bbox_inside_weights) ==
  IF p > Len(inds)
  THEN [status |-> "ok", bbox_targets |-> bbox_targets,
        bbox_inside_weights |-> bbox_inside_weights]
  ELSE LET ind == inds[p]
           cls == clss[ind]
           start == 4 * cls
           end == start + 4
           cols == Slice(start, end, Cardinality(DOMAIN bbox_targets[ind]))
       IN IF ind > Len(targets) THEN Raised("IndexError")
          ELSE IF Cardinality(cols) # 4 THEN Raised("ValueError")
          ELSE ExpandLoop(inds, p + 1, targets, clss,
                 [bbox_targets EXCEPT ![ind] =
                    [c \in DOMAIN @ |-> IF c \in cols THEN targets[ind][c - start + 1] ELSE @[c]]],
                 [bbox_inside_weights EXCEPT ![ind] =
                    [c \in DOMAIN @ |-> IF c \in cols THEN 1 ELSE @[c]]])

ComputeTargets(ex_rois, gt_rois, labels, num_classes) ==
  IF Len(ex_rois) # Len(gt_rois) THEN Raised("AssertionError")
  ELSE LET targets == BboxTransform(ex_rois, gt_rois)
           clss == labels
           zeros == [i \in 1 .. Len(clss) |-> ZeroRow(4 * num_classes)]
           inds == Where({i \in 1 .. Len(clss) : clss[i] > 0})
       IN ExpandLoop(inds, 1, targets, clss, zeros, zeros)

(***************************************************************************)
(* _unmap.  An array is [ndim, width, rows]: ndim is len(data.shape),      *)
(* width is data.shape[1] of a 2-D array, rows its rows (or elements).     *)
(* Every caller passes indices below count.                                *)
(***************************************************************************)
Array1(rows) == [ndim |-> 1, width |-> 0, rows |-> rows]
Array2(rows, width) == [ndim |-> 2, width |-> width, rows |-> rows]

\* Scatter in which the first write to a row wins
RECURSIVE ScatterFirstWins(_, _, _, _)
ScatterFirstWins(ret, inds, rows, k) ==
  IF k > Len(inds) THEN ret
  ELSE [ScatterFirstWins(ret, inds, rows, k + 1)
          EXCEPT ![inds[k]] = rows[IF Len(rows) = 1 THEN 1 ELSE k]]

\* ret[inds] = data: position k of inds receives row k of data (the single
\* row of data when it is broadcast); a later position overwrites an earlier
RECURSIVE Scatter(_, _, _, _)
Scatter(ret, inds, rows, k) ==
  IF k > Len(inds) THEN ret
  ELSE Scatter([ret EXCEPT ![inds[k]] = rows[IF Len(rows) = 1 THEN 1 ELSE k]],
               inds, rows, k + 1)

Filled(data, count, fill) ==
  IF data.ndim = 1 THEN [j \in 1 .. count |-> fill]
  ELSE [j \in 1 .. count |-> [c \in 0 .. (data.width - 1) |-> fill]]

Unmap(data, count, inds, fill) ==
  IF Len(data.rows) # Len(inds) /\ Len(data.rows) # 1
  THEN [status |-> "ValueError", ret |-> NoArrays]
  ELSE [status |-> "ok", ret |-> Scatter(Filled(data, count, fill), inds, data.rows, 1)]

(***************************************************************************)
(* encode                                                                  *)
(***************************************************************************)
GtAssignment(overlaps) == [i \in 1 .. Len(overlaps) |-> Argmax(overlaps[i])]

\* FgInds with the comparison flipped
FgIndsFlipped(max_overlaps, fg_threshold) ==
  Where({i \in 1 .. Len(max_overlaps) : max_overlaps[i] < fg_threshold})

FgInds(max_overlaps, fg_threshold) ==
  Where({i \in 1 .. Len(max_overlaps) : max_overlaps[i] >= fg_threshold})

\* BgInds with an inclusive comparison
BgIndsInclusive(max_overlaps, bg_threshold) ==
  Where({i \in 1 .. Len(max_overlaps) : max_overlaps[i] <= bg_threshold})

BgInds(max_overlaps, bg_threshold) ==
  Where({i \in 1 .. Len(max_overlaps) : max_overlaps[i] < bg_threshold})

\* FgRois without the foreground fraction
FgRoisNoFraction(size, rois_per_image, fraction) == Min(size, rois_per_image)

\* int(min(fg_inds.size, rois_per_image * fg_roi_fraction))
FgRois(size, rois_per_image, fraction) ==
  Min(size, (rois_per_image * fraction[1]) \div fraction[2])

Coords(box) == [m \in 1 .. 4 |-> box[m]]

EncodeLocals(a) ==
  LET gt_assignment == GtAssignment(a.overlaps)
      max_overlaps == [i \in 1 .. Len(a.rois) |-> a.overlaps[i][gt_assignment[i]]]
      fg_inds == FgInds(max_overlaps, a.fg_threshold)
      fg_rois == FgRois(Len(fg_inds), a.rois_per_image, a.fg_roi_fraction)
      bg_inds == BgInds(max_overlaps, a.bg_threshold)
  IN [gt_assignment |-> gt_assignment,
      max_overlaps |-> max_overlaps,
      fg_eligible |-> fg_inds,
      fg_rois |-> fg_rois,
      bg_rois |-> a.rois_per_image - fg_rois,
      bg_eligible |-> bg_inds,
      labels |-> [i \in 1 .. Len(a.rois) |->
                    IF i \in Range(bg_inds) THEN 0 ELSE a.gt_boxes[gt_assignment[i]][5]]]

\* lines 55-62, given the two draws
EncodeResult(a, l, fg_inds, bg_inds) ==
  LET num_rois == Len(a.rois)
      keep_inds == fg_inds \o bg_inds
      ct == ComputeTargets(Take(a.rois, keep_inds),
                           [k \in 1 .. Len(keep_inds) |->
                              Coords(a.gt_boxes[l.gt_assignment[keep_inds[k]]])],
                           l.labels, a.num_classes)
      ut == Unmap(Array2(ct.bbox_targets, 4 * a.num_classes), num_rois, keep_inds, 0)
      uw == Unmap(Array2(ct.bbox_inside_weights, 4 * a.num_classes), num_rois, keep_inds, 0)
      failed == [status |-> "ok", labels |-> NoArrays, rois |-> NoArrays,
                 bbox_targets |-> NoArrays, bbox_inside_weights |-> NoArrays]
  IN IF ct.status # "ok" THEN [failed EXCEPT !.status = ct.status]
     ELSE IF ut.status # "ok" THEN [failed EXCEPT !.status = ut.status]
     ELSE IF uw.status # "ok" THEN [failed EXCEPT !.status = uw.status]
     ELSE [status |-> "ok", labels |-> l.labels, rois |-> a.rois,
           bbox_targets |-> ut.ret, bbox_inside_weights |-> uw.ret]

NoLocals == [keep_inds |-> << >>]
NoResult == [status |-> "none"]

\* Box coordinates are fixed and pairwise distinct; the overlap matrix is the
\* external IoU computation's answer and is drawn freely.
EncodeArgs(R, G, cls, ov, th, rpi, fr) ==
  [gt_boxes |-> [j \in 1 .. G |-> <<100 * j, 100 * j, 100 * j + 8, 100 * j + 8, cls[j]>>],
   rois |-> [i \in 1 .. R |-> <<10 * i + 1, 10 * i + 2, 10 * i + 7, 10 * i + 9>>],
   overlaps |-> ov,
   num_classes |-> NumClasses,
   fg_threshold |-> th[1],
   bg_threshold |-> th[2],
   rois_per_image |-> rpi,
   fg_roi_fraction |-> fr]

InitEncode ==
  /\ pc = "encode"
  /\ \E R \in 1 .. MaxRois, G \in 1 .. MaxGt :
       \E cls \in [1 .. G -> Classes],
          ov \in [1 .. R -> [1 .. G -> OverlapValues]],
          th \in Thresholds, rpi \in 1 .. MaxRoisPerImage, fr \in FgRoiFractions :
         args = EncodeArgs(R, G, cls, ov, th, rpi, fr)
  /\ locals = NoLocals
  /\ result = NoResult

Encode ==
  /\ pc = "encode"
  /\ LET l == EncodeLocals(args)
     IN \E fg_inds \in (IF Len(l.fg_eligible) > 0
                        THEN Choice(l.fg_eligible, l.fg_rois) ELSE {l.fg_eligible}),
           bg_inds \in (IF Len(l.bg_eligible) > 0 /\ l.bg_rois < Len(l.bg_eligible)
                        THEN Choice(l.bg_eligible, l.bg_rois) ELSE {l.bg_eligible}) :
          /\ locals' = [gt_assignment |-> l.gt_assignment,
                        max_overlaps |-> l.max_overlaps,
                        labels |-> l.labels,
                        fg_inds |-> fg_inds,
                        bg_inds |-> bg_inds,
                        keep_inds |-> fg_inds \o bg_inds]
          /\ result' = EncodeResult(args, l, fg_inds, bg_inds)
  /\ pc' = "done"
  /\ UNCHANGED args

SpecEncode == InitEncode /\ [][Encode]_vars

(***************************************************************************)
(* decode                                                                  *)
(***************************************************************************)
\* np.max over one row
Amax(row) == CHOOSE v \in Range(row) : \A w \in Range(row) : w <= v

\* ClassSlice with ind = classes[i]
ClassSliceUnscaled(row, cls) == LET ind == cls IN [m \in 1 .. 4 |-> row[ind + m - 1]]

\* boxes[i, ind:ind+4] with ind = classes[i]*4
ClassSlice(row, cls) == LET ind == cls * 4 IN [m \in 1 .. 4 |-> row[ind + m - 1]]

Decode(boxes, scores, rois, ih, iw) ==
  LET decoded == BboxTransformInv(rois, boxes)
      classes == [i \in 1 .. Len(scores) |-> Argmax(scores[i]) - 1]
      maxima == [i \in 1 .. Len(scores) |-> Amax(scores[i])]
      final_boxes == [i \in 1 .. Len(decoded) |-> ClassSlice(decoded[i], classes[i])]
  IN [status |-> "ok",
      final_boxes |-> ClipBoxes(final_boxes, ih, iw),
      classes |-> classes,
      scores |-> maxima]

ScoreValues == {0, 1}
DeltaScales == {1, 3}
ImageSizes == {<<100, 100>>, <<40, 60>>}

\* one row of raw deltas: a different shift for every class block
DeltaRow(v) ==
  [col \in 0 .. (4 * NumClasses - 1) |-> v * (20 * (col \div 4) - 20) + (col % 4)]

InitDecode ==
  /\ pc = "decode"
  /\ \E R \in 1 .. MaxDecodeRois :
       \E sc \in [1 .. R -> [1 .. NumClasses -> ScoreValues]],
          dv \in [1 .. R -> DeltaScales], im \in ImageSizes :
         args = [boxes |-> [i \in 1 .. R |-> DeltaRow(dv[i])],
                 scores |-> sc,
                 rois |-> [i \in 1 .. R |-> <<10 * i, 10 * i, 10 * i + 40, 10 * i + 40>>],
                 ih |-> im[1],
                 iw |-> im[2]]
  /\ locals = NoLocals
  /\ result = NoResult

DecodeCall ==
  /\ pc = "decode"
  /\ result' = Decode(args.boxes, args.scores, args.rois, args.ih, args.iw)
  /\ pc' = "done"
  /\ UNCHANGED <<args, locals>>

SpecDecode == InitDecode /\ [][DecodeCall]_vars

(***************************************************************************)
(* _compute_targets and _unmap called on their own                         *)
(***************************************************************************)
SeqsUpTo(S, n) == UNION {[1 .. k -> S] : k \in 0 .. n}

SomeBoxes == {<<10, 10, 50, 50>>, <<12, 8, 40, 60>>}

InitTargets ==
  /\ pc = "compute_targets"
  /\ \E ex \in SeqsUpTo(SomeBoxes, MaxTargetRows), gt \in SeqsUpTo(SomeBoxes, MaxTargetRows),
        lb \in SeqsUpTo(Classes, MaxTargetRows) :
       args = [ex_rois |-> ex, gt_rois |-> gt, labels |-> lb, num_classes |-> NumClasses]
  /\ locals = NoLocals
  /\ result = NoResult

ComputeTargetsCall ==
  /\ pc = "compute_targets"
  /\ result' = ComputeTargets(args.ex_rois, args.gt_rois, args.labels, args.num_classes)
  /\ pc' = "done"
  /\ UNCHANGED <<args, locals>>

SpecTargets == InitTargets /\ [][ComputeTargetsCall]_vars

DataValues == {1, 2}
FillValues == {0, 7}

InitUnmap ==
  /\ pc = "unmap"
  /\ \E count \in 0 .. MaxUnmapCount, ndim \in {1, 2}, fill \in FillValues :
       \E vals \in SeqsUpTo(DataValues, MaxUnmapRows), inds \in SeqsUpTo(1 .. count, MaxUnmapRows) :
         args = [data |-> IF ndim = 1 THEN Array1(vals)
                          ELSE Array2([k \in 1 .. Len(vals) |->
                                         [c \in 0 .. (4 * NumClasses - 1) |-> vals[k]]],
                                      4 * NumClasses),
                 count |-> count,
                 inds |-> inds,
                 fill |-> fill]
  /\ locals = NoLocals
  /\ result = NoResult

UnmapCall ==
  /\ pc = "unmap"
  /\ result' = Unmap(args.data, args.count, args.inds, args.fill)
  /\ pc' = "done"
  /\ UNCHANGED <<args, locals>>

SpecUnmap == InitUnmap /\ [][UnmapCall]_vars

(***************************************************************************)
(* Properties of encode                                                    *)
(***************************************************************************)
Returned == pc = "done" /\ result.status = "ok"

RowIsZero(row) == \A c \in DOMAIN row : row[c] = 0

BlockCols(c) == (4 * c) .. (4 * c + 3)

OneBlock(row, c) == \A col \in DOMAIN row : row[col] = IF col \in BlockCols(c) THEN 1 ELSE 0

MaxOf(row) == CHOOSE v \in Range(row) : \A w \in Range(row) : w <= v

LowestMax(row) == CHOOSE j \in DOMAIN row : row[j] = MaxOf(row) /\ \A k \in DOMAIN row : row[k] = MaxOf(row) => j <= k

InDeadZone(i) ==
  /\ args.bg_threshold <= MaxOf(args.overlaps[i])
  /\ MaxOf(args.overlaps[i]) < args.fg_threshold

FgBudget == (args.rois_per_image * args.fg_roi_fraction[1]) \div args.fg_roi_fraction[2]

\* C1: in the result of encode, a row with nonzero inside_weights has exactly
\* one class block [4c, 4c+4) set to 1, everything else 0, and its label is c;
\* a row whose label is 0 has all-zero inside_weights.
C1_WeightLabelConsistency ==
  Returned =>
    \A i \in 1 .. Len(result.bbox_inside_weights) :
      /\ ~RowIsZero(result.bbox_inside_weights[i]) =>
           \E c \in Classes : /\ OneBlock(result.bbox_inside_weights[i], c)
                              /\ result.labels[i] = c
      /\ result.labels[i] = 0 => RowIsZero(result.bbox_inside_weights[i])

\* C2: encode returns normally and labels, regression targets and inside
\* weights each have exactly R rows, whatever the draws keep.
C2_ReturnsRRows ==
  pc = "done" =>
    /\ result.status = "ok"
    /\ Len(result.labels) = Len(args.rois)
    /\ Len(result.bbox_targets) = Len(args.rois)
    /\ Len(result.bbox_inside_weights) = Len(args.rois)

\* C3: in the result of encode, a proposal whose max overlap lies in
\* [bg_threshold, fg_threshold) has an all-zero inside_weights row.
C3_DeadZoneExcluded ==
  Returned =>
    \A i \in 1 .. Len(args.rois) :
      InDeadZone(i) => RowIsZero(result.bbox_inside_weights[i])

C3_Witness ==
  /\ Returned
  /\ \E i \in 1 .. Len(args.rois) : InDeadZone(i)

\* C4: the kept foreground indices number at most rois_per_image x
\* fg_fraction rounded down, and kept foreground plus kept background number
\* at most rois_per_image.
C4_SamplingBudget ==
  pc = "done" =>
    /\ Len(locals.fg_inds) <= FgBudget
    /\ Len(locals.fg_inds) + Len(locals.bg_inds) <= args.rois_per_image

C4_Witness ==
  /\ pc = "done"
  /\ Len(locals.fg_inds) = 1
  /\ Len(FgInds(locals.max_overlaps, args.fg_threshold)) = 2
  /\ Len(locals.bg_inds) = 1
  /\ Len(BgInds(locals.max_overlaps, args.bg_threshold)) = 2

\* C5 as stated: for every fg_threshold and bg_threshold, no proposal index
\* is in both the kept foreground set and the kept background set.
C5_DisjointForEveryThreshold ==
  pc = "done" => Range(locals.fg_inds) \cap Range(locals.bg_inds) = {}

\* C5 amended: when bg_threshold <= fg_threshold, every kept index is claimed
\* by exactly one of the kept foreground set and the kept background set.
C5_DisjointWhenOrdered ==
  (pc = "done" /\ args.bg_threshold <= args.fg_threshold) =>
    /\ Range(locals.fg_inds) \cap Range(locals.bg_inds) = {}
    /\ \A i \in Range(locals.keep_inds) :
         (i \in Range(locals.fg_inds)) # (i \in Range(locals.bg_inds))

C5_Witness ==
  /\ pc = "done"
  /\ args.bg_threshold <= args.fg_threshold
  /\ locals.fg_inds # << >>
  /\ locals.bg_inds # << >>

\* C6: the label of proposal i is 0 when its max overlap is below
\* bg_threshold, chosen by the background draw or not, and otherwise the class
\* of the lowest-index ground-truth box attaining the row's maximum overlap;
\* encode returns exactly these labels.
C6_Labels ==
  pc = "done" =>
    /\ \A i \in 1 .. Len(args.rois) :
         locals.labels[i] =
           IF MaxOf(args.overlaps[i]) < args.bg_threshold THEN 0
           ELSE args.gt_boxes[LowestMax(args.overlaps[i])][5]
    /\ result.status = "ok" => result.labels = locals.labels

C6_Witness ==
  /\ Returned
  /\ \E i \in 1 .. Len(args.rois) :
       /\ MaxOf(args.overlaps[i]) < args.bg_threshold
       /\ i \notin Range(locals.bg_inds)
       /\ args.gt_boxes[LowestMax(args.overlaps[i])][5] > 0
       /\ result.labels[i] = 0

\* C8: in the result of encode, a kept row i with label c > 0 holds in columns
\* [4c, 4c+4) of regression_targets the delta between proposal i and its own
\* assigned ground-truth box, and rows outside the kept set are all zero in
\* regression_targets and inside_weights, whatever the order of the draws.
C8_TargetsOfOwnBox ==
  Returned =>
    /\ \A i \in Range(locals.keep_inds) :
         result.labels[i] > 0 =>
           \A m \in 0 .. 3 :
             result.bbox_targets[i][4 * result.labels[i] + m] =
               args.gt_boxes[LowestMax(args.overlaps[i])][m + 1] - args.rois[i][m + 1]
    /\ \A i \in (1 .. Len(args.rois)) \ Range(locals.keep_inds) :
         /\ RowIsZero(result.bbox_targets[i])
         /\ RowIsZero(result.bbox_inside_weights[i])

(***************************************************************************)
(* Properties of decode, _compute_targets and _unmap                       *)
(***************************************************************************)
Clamp(x, size) == IF x < 0 THEN 0 ELSE IF x > size - 1 THEN size - 1 ELSE x

\* C7: decode returns R rows; predicted_class[i] is the lowest class index
\* attaining the maximum of raw_scores[i], confidence[i] is that maximum, and
\* final_boxes[i] is the clipped slice [4c, 4c+4) of row i of the decoded
\* boxes for that class c alone.
C7_DecodeWinnerSlice ==
  pc = "done" =>
    /\ result.status = "ok"
    /\ Len(result.final_boxes) = Len(args.rois)
    /\ Len(result.classes) = Len(args.rois)
    /\ Len(result.scores) = Len(args.rois)
    /\ \A i \in 1 .. Len(args.rois) :
         LET c == result.classes[i]
         IN /\ c \in Classes
            /\ \A k \in Classes : args.scores[i][k + 1] <= args.scores[i][c + 1]
            /\ \A k \in Classes : k < c => args.scores[i][k + 1] < args.scores[i][c + 1]
            /\ result.scores[i] = args.scores[i][c + 1]
            /\ \A m \in 1 .. 4 :
                 result.final_boxes[i][m] =
                   Clamp(args.rois[i][m] + args.boxes[i][4 * c + m - 1],
                         IF m \in {1, 3} THEN args.iw ELSE args.ih)

C7_Witness ==
  /\ pc = "done"
  /\ \E i \in 1 .. Len(args.rois) :
       /\ result.classes[i] = 1
       /\ args.scores[i][2] = args.scores[i][3]
       /\ \E m \in 1 .. 4 :
            result.final_boxes[i][m] # args.rois[i][m] + args.boxes[i][4 + m - 1]
  /\ \E i \in 1 .. Len(args.rois) : result.classes[i] = 2

\* C9: _compute_targets aborts with a failed assertion whenever the rows of
\* matched_proposals, the rows of matched_ground_truth and the length of
\* labels are not all equal.
C9_AssertsEqualRows ==
  (pc = "done" /\ ~(Len(args.ex_rois) = Len(args.gt_rois) /\ Len(args.gt_rois) = Len(args.labels)))
    => result.status = "AssertionError"

\* C10: for K rows of data and K indices in [0, count), unsorted or repeated,
\* _unmap returns count rows; a row no index names equals the fill value, and
\* a row j that is named equals data[k] for the last k with indices[k] = j.
C10_UnmapLastWriteWins ==
  (pc = "done" /\ Len(args.data.rows) = Len(args.inds)) =>
    /\ result.status = "ok"
    /\ Len(result.ret) = args.count
    /\ \A j \in 1 .. args.count :
         LET named == {k \in 1 .. Len(args.inds) : args.inds[k] = j}
             last == CHOOSE k \in named : \A k2 \in named : k2 <= k
             fillrow == IF args.data.ndim = 1 THEN args.fill
                        ELSE [c \in 0 .. (args.data.width - 1) |-> args.fill]
         IN result.ret[j] = IF named = {} THEN fillrow ELSE args.data.rows[last]

C10_Witness ==
  /\ pc = "done"
  /\ result.status = "ok"
  /\ args.data.ndim = 2
  /\ Len(args.inds) = 3
  /\ Len(args.data.rows) = 3
  /\ args.inds[1] = args.inds[3]
  /\ args.inds[2] < args.inds[1]
  /\ args.data.rows[1] # args.data.rows[3]
  /\ \E j \in 1 .. args.count : j \notin Range(args.inds)

====
